---- MODULE Spec2Model ----
(***************************************************************************)
(* SlipStackContainer (src/src/SlipStackContainer.tsx, lines 1-292): the   *)
(* ordered pane list with openPane / closePane, the tab allocator          *)
(* (initialTabCount, leftTabs / pinnedPane / trackPanes / rightTabs,       *)
(* overlap, minBound / maxBound) and the wheel handler driving tabRefuge,  *)
(* tabOffset and the spring target x.                                      *)
(*                                                                         *)
(* Widths are integer pixels.  A pane descriptor is [id, ver]: ver stands  *)
(* for the title / element carried with the id, so that two descriptors    *)
(* with the same id can be told apart.                                     *)
(*                                                                         *)
(* State: panes, tabRefuge, tabOffset (useState), paneWidth (prop),        *)
(* viewportWidth (useMeasure), springX (target handed to api.start),       *)
(* wheelX / wheelDir / wheelActive (offset, direction and active flag of   *)
(* the wheel gesture).  lastOp is a history variable naming the last       *)
(* navigation operation.  Each handler is one step: React re-renders       *)
(* between two events, so a handler reads the values of the current state. *)
(* The widths used keep maxPaneWidth # tabWidth, so the division in        *)
(* initialTabCount never has a zero divisor here.                          *)
(*                                                                         *)
(* ScrollableTiledContainer (src/src/ScrollableTiledContainer.tsx): the    *)
(* pane list with the truncating openPane, viewIndex, and the render       *)
(* computing paneWidth, maxVisible, visibleCount, rightTabs and offset.    *)
(* State: tiledPanes, viewIndex (useState), width (prop), boundsWidth      *)
(* (useMeasure).  The specifications of one container leave the variables  *)
(* of the other at the values of a container that is not mounted.          *)
(***************************************************************************)
EXTENDS Integers, Sequences, FiniteSets, TLC

\* ---------------------------------------------------------------- bounds
MaxPanes == 3
MaxWheelSteps == 2
WheelUnit == 200

\* ------------------------------------------------------- program constants
tabWidth == 40

\* ------------------------------------------------------------ input sets
PaneIds == 1..MaxPanes
\* descriptors a caller passes: one per id, plus a second descriptor for id 1
PaneData == {[id |-> i, ver |-> 0] : i \in PaneIds} \cup {[id |-> 1, ver |-> 1]}
InitialPaneData == {[id |-> i, ver |-> 0] : i \in PaneIds}
PaneWidths == {200, 300}
ViewportWidths == {0, 100, 300, 800}
WheelDeltas == {-WheelUnit, WheelUnit}

\* widths of the ScrollableTiledContainer: its width prop and bounds.width
TiledWidths == {200, 300}
TiledBoundsWidths == {0, 300, 800}

VARIABLES panes, paneWidth, viewportWidth, tabRefuge, tabOffset,
          springX, wheelX, wheelDir, wheelActive, lastOp,
          tiledPanes, width, boundsWidth, viewIndex

\* state of the SlipStackContainer and of the ScrollableTiledContainer
slipVars == <<panes, paneWidth, viewportWidth, tabRefuge, tabOffset,
              springX, wheelX, wheelDir, wheelActive>>
tiledVars == <<tiledPanes, width, boundsWidth, viewIndex>>

vars == <<panes, paneWidth, viewportWidth, tabRefuge, tabOffset,
          springX, wheelX, wheelDir, wheelActive, lastOp,
          tiledPanes, width, boundsWidth, viewIndex>>

\* ------------------------------------------------------------ JS helpers
Min(a, b) == IF a <= b THEN a ELSE b
Max(a, b) == IF a >= b THEN a ELSE b
Sign(a) == IF a < 0 THEN -1 ELSE IF a > 0 THEN 1 ELSE 0

\* Math.ceil(a / b) for integers a and b # 0
CeilDiv(a, b) ==
    IF b > 0 THEN -((-a) \div b) ELSE -(a \div (-b))

\* Array.prototype.findIndex(p => p.id === id): 0-based index or -1
findIndex(s, id) ==
    IF \E i \in 1..Len(s) : s[i].id = id
    THEN (CHOOSE i \in 1..Len(s) :
             s[i].id = id /\ \A j \in 1..(i - 1) : s[j].id # id) - 1
    ELSE -1

\* Array.prototype.filter(p => p.id !== id)
filterId(s, id) == SelectSeq(s, LAMBDA p : p.id # id)

\* relative index normalisation of Array.prototype.slice
relIndex(i, len) == IF i < 0 THEN Max(len + i, 0) ELSE Min(i, len)

\* Array.prototype.slice(start, end)
slice(s, start, end) ==
    LET from == relIndex(start, Len(s))
        to   == relIndex(end, Len(s))
    IN IF from < to THEN SubSeq(s, from + 1, to) ELSE <<>>

\* Array.prototype.slice(start)
sliceFrom(s, start) == slice(s, start, Len(s))

HasId(s, id) == \E i \in 1..Len(s) : s[i].id = id
UniqueIds(s) == \A i, j \in 1..Len(s) : s[i].id = s[j].id => i = j

\* lists a caller may pass as the paneData prop: pairwise distinct ids,
\* here the first k descriptors (other lists are reached through openPane
\* and closePane)
InitialLists ==
    {[i \in 1..k |-> [id |-> i, ver |-> 0]] : k \in 0..MaxPanes}

\* ------------------------------------------------------- pane list model
\* variants of openPaneList with a plausible slip
openPaneList_prepend(prev, next) ==
    LET i == findIndex(prev, next.id)
    IN IF i = -1 THEN <<next>> \o prev
       ELSE Append(filterId(prev, next.id), next)

openPaneList_truncate(prev, next) ==
    LET i == findIndex(prev, next.id)
    IN IF i = -1 THEN Append(prev, next)
       ELSE slice(prev, 0, i + 1)

openPaneList_noFilter(prev, next) == Append(prev, next)

openPaneList(prev, next) ==
    LET i == findIndex(prev, next.id)
    IN IF i = -1 THEN Append(prev, next)
       ELSE Append(filterId(prev, next.id), next)

\* variants of closePaneList with a plausible slip
closePaneList_cutTail(prev, id) ==
    LET i == findIndex(prev, id)
    IN IF i = -1 THEN prev ELSE slice(prev, 0, i)

closePaneList_splice(prev, id) ==
    LET i == findIndex(prev, id)
    IN slice(prev, 0, i) \o (IF i = -1 THEN <<>> ELSE sliceFrom(prev, i + 1))

closePaneList(prev, id) == filterId(prev, id)

\* -------------------------------------------------------------- allocator
maxPaneWidthOf(pw, vw) == Min(pw, vw)

\* variant of initialTabCountOf without the lower clamp Math.max(0, ...)
initialTabCountOf_noClamp(n, m, vw) ==
    CeilDiv(((n - 1) * m) - vw + tabWidth, m - tabWidth)

\* variant of initialTabCountOf rounding down instead of up
initialTabCountOf_floor(n, m, vw) ==
    Max(0, -CeilDiv(-(((n - 1) * m) - vw + tabWidth), m - tabWidth))

initialTabCountOf(n, m, vw) ==
    Max(0, CeilDiv(((n - 1) * m) - vw + tabWidth, m - tabWidth))

leftTabCountOf(ps, pw, vw, refuge, toff) ==
    initialTabCountOf(Len(ps), maxPaneWidthOf(pw, vw), vw) - toff
        - (IF refuge THEN 1 ELSE 0)

\* variant of overlapOf leaving the pinned pane out of the full panes
overlapOf_trackOnly(ps, pw, vw, refuge, toff) ==
    LET l == leftTabCountOf(ps, pw, vw, refuge, toff)
    IN Min(0, vw - (l + toff) * tabWidth
                 - (Len(ps) - l - toff - 1) * maxPaneWidthOf(pw, vw))

\* variant of overlapOf using the paneWidth prop instead of maxPaneWidth
overlapOf_rawWidth(ps, pw, vw, refuge, toff) ==
    LET l == leftTabCountOf(ps, pw, vw, refuge, toff)
    IN Min(0, vw - (l + toff) * tabWidth - (Len(ps) - l - toff) * pw)

overlapOf(ps, pw, vw, refuge, toff) ==
    LET l == leftTabCountOf(ps, pw, vw, refuge, toff)
    IN Min(0, vw - (l + toff) * tabWidth
                 - (Len(ps) - l - toff) * maxPaneWidthOf(pw, vw))

maxPaneWidth == maxPaneWidthOf(paneWidth, viewportWidth)
initialTabCount == initialTabCountOf(Len(panes), maxPaneWidth, viewportWidth)
leftTabCount == leftTabCountOf(panes, paneWidth, viewportWidth, tabRefuge, tabOffset)
rightTabCount == tabOffset

leftTabs == slice(panes, 0, leftTabCount)
visiblePanes == slice(panes, leftTabCount, Len(panes) - rightTabCount)
hasPinnedPane == Len(visiblePanes) > 0
pinnedPane == IF hasPinnedPane THEN <<Head(visiblePanes)>> ELSE <<>>
trackPanes == IF hasPinnedPane THEN Tail(visiblePanes) ELSE <<>>
rightTabs == sliceFrom(panes, Len(panes) - rightTabCount)

overlap == overlapOf(panes, paneWidth, viewportWidth, tabRefuge, tabOffset)
minBound == IF tabRefuge THEN -(maxPaneWidth - tabWidth) ELSE overlap
maxBound == IF tabRefuge THEN overlap ELSE 0

\* variant of cx without the clamp to [minBound, maxBound]
cx_noClamp(x) == overlap - x

cx(x) == Max(minBound, Min(maxBound, overlap - x))

\* ------------------------------------------------------------------ Init
\* no ScrollableTiledContainer is mounted
NoTiledContainer ==
    /\ tiledPanes = <<>>
    /\ width = 0
    /\ boundsWidth = 0
    /\ viewIndex = 0

Init ==
    /\ NoTiledContainer
    /\ panes \in InitialLists
    /\ paneWidth \in PaneWidths
    /\ viewportWidth \in ViewportWidths
    /\ tabRefuge = FALSE
    /\ tabOffset = 0
    /\ springX = overlapOf(panes, paneWidth, viewportWidth, FALSE, 0)
    /\ wheelX = 0
    /\ wheelDir = 0
    /\ wheelActive = FALSE
    /\ lastOp = "mount"

\* --------------------------------------------------------------- actions
\* setPanes(...) followed by the effect on [panes, api]: api.start({x: overlap})
SetPanes(newPanes) ==
    /\ panes' = newPanes
    /\ springX' = overlapOf(newPanes, paneWidth, viewportWidth, tabRefuge, tabOffset)
    /\ UNCHANGED <<paneWidth, viewportWidth, tabRefuge, tabOffset,
                   wheelX, wheelDir, wheelActive>>
    /\ UNCHANGED tiledVars

OpenPane(next) ==
    /\ lastOp' = IF HasId(panes, next.id) THEN "openExisting" ELSE "openFresh"
    /\ SetPanes(openPaneList(panes, next))

ClosePane(id) ==
    /\ lastOp' = IF HasId(panes, id) THEN "closePresent" ELSE "closeAbsent"
    /\ SetPanes(closePaneList(panes, id))

\* the paneData prop is replaced: effect on [paneData] calls setPanes(paneData)
SetPaneData(list) ==
    /\ lastOp' = "setPaneData"
    /\ SetPanes(list)

\* useMeasure reports a new viewport width
Resize(w) ==
    /\ w # viewportWidth
    /\ viewportWidth' = w
    /\ lastOp' = "other"
    /\ UNCHANGED <<panes, paneWidth, tabRefuge, tabOffset, springX,
                   wheelX, wheelDir, wheelActive>>
    /\ UNCHANGED tiledVars

\* variant of WheelHandler entering refuge from the left side only when the
\* clamped position is beyond the start of the track
WheelHandler_strictEntry(active, x, dx) ==
    IF dx < 0 /\ ~tabRefuge /\ leftTabCount > 0 /\ cx(x) > 0
    THEN /\ tabRefuge' = TRUE
         /\ UNCHANGED <<tabOffset, springX>>
    ELSE IF dx < 0 /\ tabRefuge /\ cx(x) >= overlap
    THEN /\ tabRefuge' = FALSE
         /\ tabOffset' = tabOffset + 1
         /\ UNCHANGED springX
    ELSE IF dx > 0 /\ ~tabRefuge /\ rightTabCount > 0 /\ cx(x) <= overlap
    THEN /\ tabRefuge' = TRUE
         /\ tabOffset' = tabOffset - 1
         /\ UNCHANGED springX
    ELSE IF dx > 0 /\ tabRefuge /\ cx(x) <= -(maxPaneWidth - tabWidth)
    THEN /\ tabRefuge' = FALSE
         /\ UNCHANGED <<tabOffset, springX>>
    ELSE /\ springX' = cx(x)
         /\ UNCHANGED <<tabRefuge, tabOffset>>

\* body of the useWheel handler for one sample {active, offset: [x], direction: [dx]}
WheelHandler(active, x, dx) ==
    IF dx < 0 /\ ~tabRefuge /\ leftTabCount > 0 /\ cx(x) >= 0
    THEN /\ tabRefuge' = TRUE
         /\ UNCHANGED <<tabOffset, springX>>
    ELSE IF dx < 0 /\ tabRefuge /\ cx(x) >= overlap
    THEN /\ tabRefuge' = FALSE
         /\ tabOffset' = tabOffset + 1
         /\ UNCHANGED springX
    ELSE IF dx > 0 /\ ~tabRefuge /\ rightTabCount > 0 /\ cx(x) <= overlap
    THEN /\ tabRefuge' = TRUE
         /\ tabOffset' = tabOffset - 1
         /\ UNCHANGED springX
    ELSE IF dx > 0 /\ tabRefuge /\ cx(x) <= -(maxPaneWidth - tabWidth)
    THEN /\ tabRefuge' = FALSE
         /\ UNCHANGED <<tabOffset, springX>>
    ELSE /\ springX' = cx(x)
         /\ UNCHANGED <<tabRefuge, tabOffset>>

\* a wheel event: the gesture library accumulates the delta into offset
\* (offset carries over from one gesture to the next), direction = sign(delta)
WheelEvent(d) ==
    /\ wheelX' = wheelX + d
    /\ wheelDir' = Sign(d)
    /\ wheelActive' = TRUE
    /\ WheelHandler(TRUE, wheelX + d, Sign(d))
    /\ lastOp' = "other"
    /\ UNCHANGED <<panes, paneWidth, viewportWidth>>
    /\ UNCHANGED tiledVars

\* a wheel event whose accumulated offset stays within MaxWheelSteps units
Wheel(d) ==
    /\ wheelX + d >= -(MaxWheelSteps * WheelUnit)
    /\ wheelX + d <= MaxWheelSteps * WheelUnit
    /\ WheelEvent(d)

\* the gesture ends (wheelEnd timeout of the gesture library): the handler
\* runs once more with active = false, the offset and the direction of the
\* last sample
WheelEnd ==
    /\ wheelActive
    /\ wheelActive' = FALSE
    /\ WheelHandler(FALSE, wheelX, wheelDir)
    /\ lastOp' = "other"
    /\ UNCHANGED <<panes, paneWidth, viewportWidth, wheelX, wheelDir>>
    /\ UNCHANGED tiledVars

\* the container under navigation, prop replacement, resize and wheel input
Next ==
    \/ \E next \in InitialPaneData : OpenPane(next)
    \/ \E id \in PaneIds : ClosePane(id)
    \/ \E list \in InitialLists : SetPaneData(list)
    \/ \E w \in ViewportWidths : Resize(w)
    \/ \E d \in WheelDeltas : Wheel(d)
    \/ WheelEnd

Spec == Init /\ [][Next]_vars

\* a mounted container under wheel input alone: the pane list, the paneWidth
\* prop and the viewport stay as mounted
NextWheel ==
    \/ \E d \in WheelDeltas : Wheel(d)
    \/ WheelEnd

SpecWheel == Init /\ [][NextWheel]_vars

\* wheel input, with navigation and prop replacement arriving only while
\* the controller is outside refuge
NextRest ==
    \/ \E d \in WheelDeltas : Wheel(d)
    \/ WheelEnd
    \/ ~tabRefuge /\ \E next \in InitialPaneData : OpenPane(next)
    \/ ~tabRefuge /\ \E id \in PaneIds : ClosePane(id)
    \/ ~tabRefuge /\ \E list \in InitialLists : SetPaneData(list)

SpecRest == Init /\ [][NextRest]_vars

\* the branch of the useWheel handler that a sample {offset: [x],
\* direction: [dx]} takes when it is evaluated against the current render
sampleBranch(x, dx) ==
    IF dx < 0 /\ ~tabRefuge /\ leftTabCount > 0 /\ cx(x) >= 0 THEN "enterLeft"
    ELSE IF dx < 0 /\ tabRefuge /\ cx(x) >= overlap THEN "commit"
    ELSE IF dx > 0 /\ ~tabRefuge /\ rightTabCount > 0 /\ cx(x) <= overlap
    THEN "enterRight"
    ELSE IF dx > 0 /\ tabRefuge /\ cx(x) <= -(maxPaneWidth - tabWidth)
    THEN "release"
    ELSE "move"

\* the updater the branch queues with setTabOffset, as an increment
offsetUpdate(branch) ==
    IF branch = "commit" THEN 1 ELSE IF branch = "enterRight" THEN -1 ELSE 0

\* cap of the tab-offset counter under repeated double updates
BurstSpan == MaxPanes + 2

\* two wheel events handled before the component renders again: both run
\* the handler of the same render, so both read the same tabRefuge, counts,
\* overlap and bounds.  The queued setTabOffset updaters are applied one
\* after the other, the last setTabRefuge value and the last api.start win.
WheelBurst(d1, d2) ==
    LET x1 == wheelX + d1
        x2 == x1 + d2
        b1 == sampleBranch(x1, Sign(d1))
        b2 == sampleBranch(x2, Sign(d2))
    IN /\ x1 >= -(MaxWheelSteps * WheelUnit)
       /\ x1 <= MaxWheelSteps * WheelUnit
       /\ x2 >= -(MaxWheelSteps * WheelUnit)
       /\ x2 <= MaxWheelSteps * WheelUnit
       /\ tabOffset + offsetUpdate(b1) + offsetUpdate(b2) >= -BurstSpan
       /\ tabOffset + offsetUpdate(b1) + offsetUpdate(b2) <= BurstSpan
       /\ wheelX' = x2
       /\ wheelDir' = Sign(d2)
       /\ wheelActive' = TRUE
       /\ tabRefuge' =
              IF b2 \in {"enterLeft", "enterRight"} THEN TRUE
              ELSE IF b2 \in {"commit", "release"} THEN FALSE
              ELSE IF b1 \in {"enterLeft", "enterRight"} THEN TRUE
              ELSE IF b1 \in {"commit", "release"} THEN FALSE
              ELSE tabRefuge
       /\ tabOffset' = tabOffset + offsetUpdate(b1) + offsetUpdate(b2)
       /\ springX' =
              IF b2 = "move" THEN cx(x2)
              ELSE IF b1 = "move" THEN cx(x1)
              ELSE springX
       /\ lastOp' = "other"
       /\ UNCHANGED <<panes, paneWidth, viewportWidth>>
       /\ UNCHANGED tiledVars

\* a mounted container under wheel input, where two events may be handled
\* against the same render
NextBurst ==
    \/ \E d \in WheelDeltas : Wheel(d)
    \/ WheelEnd
    \/ \E d1, d2 \in WheelDeltas : WheelBurst(d1, d2)

SpecBurst == Init /\ [][NextBurst]_vars

\* a user who keeps turning the wheel one way until no tab is left on that
\* side, then the other way, one WheelUnit per event; the accumulated offset
\* stays within SweepSpan
SweepSpan == (3 * MaxPanes + 3) * WheelUnit

SweepDir ==
    IF wheelDir = -1
    THEN (IF leftTabCount > 0 \/ tabRefuge THEN -1 ELSE 1)
    ELSE (IF rightTabCount > 0 \/ tabRefuge THEN 1 ELSE -1)

Sweep ==
    /\ wheelX + SweepDir * WheelUnit >= -SweepSpan
    /\ wheelX + SweepDir * WheelUnit <= SweepSpan
    /\ WheelEvent(SweepDir * WheelUnit)

\* the accumulated wheel offset is within MaxWheelSteps units of its origin
NearOrigin ==
    /\ wheelX >= -(MaxWheelSteps * WheelUnit)
    /\ wheelX <= MaxWheelSteps * WheelUnit

\* the sweeping user, with the paneData prop replaced at any moment at
\* which the accumulated wheel offset is near its origin
NextSweep ==
    \/ Sweep
    \/ NearOrigin /\ \E list \in InitialLists : SetPaneData(list)

\* the user keeps turning the wheel
SpecSweep == Init /\ [][NextSweep]_vars /\ WF_vars(Sweep)

\* the pane list and the allocator alone: navigation with every descriptor
\* of PaneData, prop replacement and resize, no wheel input
NextNav ==
    \/ \E next \in PaneData : OpenPane(next)
    \/ \E id \in PaneIds : ClosePane(id)
    \/ \E list \in InitialLists : SetPaneData(list)
    \/ \E w \in ViewportWidths : Resize(w)

SpecNav == Init /\ [][NextNav]_vars

\* the container mounted before useMeasure has measured the viewport
\* (width 0); later measurements are non-zero widths
MeasuredWidths == ViewportWidths \ {0}

InitUnmeasured ==
    /\ NoTiledContainer
    /\ panes \in InitialLists
    /\ paneWidth \in PaneWidths
    /\ viewportWidth = 0
    /\ tabRefuge = FALSE
    /\ tabOffset = 0
    /\ springX = overlapOf(panes, paneWidth, 0, FALSE, 0)
    /\ wheelX = 0
    /\ wheelDir = 0
    /\ wheelActive = FALSE
    /\ lastOp = "mount"

NextMeasure ==
    \/ \E next \in InitialPaneData : OpenPane(next)
    \/ \E id \in PaneIds : ClosePane(id)
    \/ \E list \in InitialLists : SetPaneData(list)
    \/ \E w \in MeasuredWidths : Resize(w)
    \/ \E d \in WheelDeltas : Wheel(d)
    \/ WheelEnd

SpecMeasure == InitUnmeasured /\ [][NextMeasure]_vars

\* navigation by fresh ids only, no wheel input: one id more than PaneIds,
\* and a viewport hardly wider than a tab among the widths
FreshPaneData == {[id |-> i, ver |-> 0] : i \in 1..(MaxPanes + 1)}
FreshViewportWidths == ViewportWidths \cup {60}

InitFresh ==
    /\ NoTiledContainer
    /\ panes \in InitialLists
    /\ paneWidth \in PaneWidths
    /\ viewportWidth \in FreshViewportWidths
    /\ tabRefuge = FALSE
    /\ tabOffset = 0
    /\ springX = overlapOf(panes, paneWidth, viewportWidth, FALSE, 0)
    /\ wheelX = 0
    /\ wheelDir = 0
    /\ wheelActive = FALSE
    /\ lastOp = "mount"

OpenFreshPane(next) ==
    /\ ~HasId(panes, next.id)
    /\ OpenPane(next)

NextFresh ==
    \/ \E next \in FreshPaneData : OpenFreshPane(next)
    \/ \E w \in FreshViewportWidths : Resize(w)

SpecFresh == InitFresh /\ [][NextFresh]_vars

\* a paneWidth prop narrower than a tab: maxPaneWidth < tabWidth
NarrowPaneWidths == {20}

InitNarrow ==
    /\ NoTiledContainer
    /\ panes \in InitialLists
    /\ paneWidth \in NarrowPaneWidths
    /\ viewportWidth \in ViewportWidths
    /\ tabRefuge = FALSE
    /\ tabOffset = 0
    /\ springX = overlapOf(panes, paneWidth, viewportWidth, FALSE, 0)
    /\ wheelX = 0
    /\ wheelDir = 0
    /\ wheelActive = FALSE
    /\ lastOp = "mount"

\* the pane list and the allocator with panes narrower than a tab
SpecNarrow == InitNarrow /\ [][NextNav]_vars

\* =========================================== ScrollableTiledContainer
\* src/src/ScrollableTiledContainer.tsx: state tiledPanes (panes), viewIndex,
\* props width, bounds.width of useMeasure.  One step is a handler, the
\* render that follows it and the effects of that render.

\* no SlipStackContainer is mounted
NoSlipStackContainer ==
    /\ panes = <<>>
    /\ paneWidth = 0
    /\ viewportWidth = 0
    /\ tabRefuge = FALSE
    /\ tabOffset = 0
    /\ springX = 0
    /\ wheelX = 0
    /\ wheelDir = 0
    /\ wheelActive = FALSE

\* variant of tiledOpenPaneList putting next in place of the matching pane
tiledOpenPaneList_replace(prev, next) ==
    LET i == findIndex(prev, next.id)
    IN IF i = -1 THEN Append(prev, next)
       ELSE Append(slice(prev, 0, i), next)

\* updater of openPane
tiledOpenPaneList(prev, next) ==
    LET i == findIndex(prev, next.id)
    IN IF i = -1 THEN Append(prev, next)
       ELSE slice(prev, 0, i + 1)

\* paneWidth of the render
tiledPaneWidthOf(w, bw) == Min(w, bw)

\* maxVisible of the render.  With paneWidth = 0 (bounds.width = 0, the width
\* prop being positive) the quotient is -40 / 0 = -Infinity, Math.min gives
\* -Infinity and Math.max gives 1.
maxVisibleOf(n, w, bw) ==
    LET pw == tiledPaneWidthOf(w, bw)
    IN IF pw = 0 THEN 1
       ELSE Max(1, Min(n, (bw + (pw - tabWidth)) \div pw))

\* the while loop of the render from (visibleCount, rightTabs): its result,
\* or completes = FALSE when it never ends (leftTabs > 0 keeps the second
\* operand true and each turn changes offset by -(paneWidth - tabWidth) <= 0)
RECURSIVE collapseLoop(_, _, _, _, _)
collapseLoop(vc, rt, lt, pw, bw) ==
    LET off == pw * vc - (bw - (lt + rt) * tabWidth)
    IN IF off <= -(pw - tabWidth) /\ (vc > 1 \/ lt > 0)
       THEN IF lt > 0 /\ pw >= tabWidth
            THEN [visibleCount |-> vc, rightTabs |-> rt, offset |-> off,
                  completes |-> FALSE]
            ELSE collapseLoop(vc - 1, rt + 1, lt, pw, bw)
       ELSE [visibleCount |-> vc, rightTabs |-> rt, offset |-> off,
             completes |-> TRUE]

\* leftTabs, visibleCount, rightTabs and offset of the render
tiledRenderOf(ps, w, bw, idx) ==
    LET n  == Len(ps)
        pw == tiledPaneWidthOf(w, bw)
        lt == idx
        vc == Max(0, Min(maxVisibleOf(n, w, bw), n - lt))
        rt == Max(0, n - lt - vc)
        r  == collapseLoop(vc, rt, lt, pw, bw)
        o  == Max(r.offset, -(pw - tabWidth))
    IN [leftTabs |-> lt, visibleCount |-> r.visibleCount,
        rightTabs |-> r.rightTabs,
        offset |-> IF lt = 0 /\ o < 0 THEN 0 ELSE o,
        completes |-> r.completes]

tiledPaneWidth == tiledPaneWidthOf(width, boundsWidth)
maxVisible == maxVisibleOf(Len(tiledPanes), width, boundsWidth)
tiledRender == tiledRenderOf(tiledPanes, width, boundsWidth, viewIndex)
\* the render reaches its return statement
RenderCompletes == tiledRender.completes
offset == tiledRender.offset
tabs == slice(tiledPanes, 0, tiledRender.leftTabs)
visible ==
    slice(tiledPanes, tiledRender.leftTabs,
          tiledRender.leftTabs + tiledRender.visibleCount)
rightTabsElements ==
    sliceFrom(tiledPanes, tiledRender.leftTabs + tiledRender.visibleCount)
\* the first visible pane is rendered with position: absolute
firstIsAbsolute == Len(visible) > 0 /\ offset > 0

\* mount: the three effects run in order, the last one sets
\* viewIndex = panes.length - maxVisible
InitTiled ==
    /\ NoSlipStackContainer
    /\ tiledPanes \in InitialLists
    /\ width \in TiledWidths
    /\ boundsWidth \in TiledBoundsWidths
    /\ viewIndex = Len(tiledPanes) - maxVisibleOf(Len(tiledPanes), width, boundsWidth)
    /\ lastOp = "mount"

\* the render with new panes / bounds and the previous viewIndex, then, when
\* that render completes, the effects on [maxVisible] and on
\* [panes.length, maxVisible]: the last one wins
TiledRerender(newPanes, newBounds, idx) ==
    LET n  == Len(newPanes)
        mv == maxVisibleOf(n, width, newBounds)
    IN /\ tiledPanes' = newPanes
       /\ boundsWidth' = newBounds
       /\ viewIndex' =
              IF /\ tiledRenderOf(newPanes, width, newBounds, idx).completes
                 /\ (n # Len(tiledPanes) \/ mv # maxVisible)
              THEN n - mv
              ELSE idx
       /\ UNCHANGED width
       /\ UNCHANGED slipVars

TiledOpenPane(next) ==
    /\ RenderCompletes
    /\ lastOp' = IF HasId(tiledPanes, next.id) THEN "openExisting" ELSE "openFresh"
    /\ TiledRerender(tiledOpenPaneList(tiledPanes, next), boundsWidth, viewIndex)

\* the initial prop is replaced: setPanes(initial); setViewIndex(0)
TiledSetInitial(list) ==
    /\ RenderCompletes
    /\ lastOp' = "setPaneData"
    /\ TiledRerender(list, boundsWidth, 0)

\* useMeasure reports a new bounds.width
TiledResize(w) ==
    /\ RenderCompletes
    /\ w # boundsWidth
    /\ lastOp' = "other"
    /\ TiledRerender(tiledPanes, w, viewIndex)

\* onWheel with the sign of deltaX / deltaY
TiledWheel(d) ==
    /\ RenderCompletes
    /\ viewIndex' = IF d > 0 THEN Min(Len(tiledPanes), viewIndex + 1)
                    ELSE Max(0, viewIndex - 1)
    /\ lastOp' = "wheel"
    /\ UNCHANGED <<tiledPanes, width, boundsWidth>>
    /\ UNCHANGED slipVars

NextTiled ==
    \/ \E next \in PaneData : TiledOpenPane(next)
    \/ \E list \in InitialLists : TiledSetInitial(list)
    \/ \E w \in TiledBoundsWidths : TiledResize(w)
    \/ \E d \in {-1, 1} : TiledWheel(d)

SpecTiled == InitTiled /\ [][NextTiled]_vars

TypeOK ==
    /\ panes \in Seq(PaneData)
    /\ tabRefuge \in BOOLEAN
    /\ tabOffset \in Int
    /\ springX \in Int

\* ================================================================ claims
\* 1-based position of the pane with the given id
PosOf(s, id) == CHOOSE i \in 1..Len(s) : s[i].id = id
\* the list without the element at 1-based position i
WithoutPos(s, i) == SubSeq(s, 1, i - 1) \o SubSeq(s, i + 1, Len(s))
IdsOf(s) == [i \in 1..Len(s) |-> s[i].id]

FullPanePositions ==
    (relIndex(leftTabCount, Len(panes)) + 1)
        .. relIndex(Len(panes) - rightTabCount, Len(panes))

\* C3: openPane(next) called from a pane appends next immediately to the
\* right of the calling pane and removes every pane further right; when
\* next.id already exists, every pane to the right of the matching pane is
\* discarded and the matching pane becomes the right-most one.
C3_OpenTruncatesRight ==
    [][\A next \in PaneData :
          (OpenPane(next) /\ UniqueIds(panes)) =>
              IF HasId(panes, next.id)
              THEN IdsOf(panes') = IdsOf(SubSeq(panes, 1, PosOf(panes, next.id)))
              ELSE \A c \in FullPanePositions :
                      panes' = Append(SubSeq(panes, 1, c), next)]_vars

\* C4: closePane(id) with an id present (unique ids) removes exactly that
\* pane: the others keep descriptor and order, the length shrinks by 1.
C4_ClosePresentRemovesOne ==
    [][\A id \in PaneIds :
          (ClosePane(id) /\ HasId(panes, id) /\ UniqueIds(panes)) =>
              /\ Len(panes') = Len(panes) - 1
              /\ panes' = WithoutPos(panes, PosOf(panes, id))]_vars

C4_Witness ==
    /\ lastOp = "closePresent"
    /\ Len(panes) = 2
    /\ panes[1].id > panes[2].id

\* C5: closePane(id) with an id not in the list is a no-op: the pane list,
\* the tab-offset counter and the refuge flag are unchanged.
C5_CloseAbsentNoOp ==
    [][(lastOp' = "closeAbsent") =>
          \A id \in PaneIds :
              (ClosePane(id) /\ ~HasId(panes, id)) =>
                  /\ panes' = panes
                  /\ tabOffset' = tabOffset
                  /\ tabRefuge' = tabRefuge]_vars

C5_Witness ==
    /\ lastOp = "closeAbsent"
    /\ Len(panes) >= 2
    /\ tabOffset > 0

\* C6: starting from a list with pairwise distinct ids, the ids in the pane
\* list stay pairwise distinct after any sequence of openPane / closePane.
C6_UniqueIds == UniqueIds(panes)

C6_Witness ==
    /\ lastOp = "openExisting"
    /\ Len(panes) = 3
    /\ panes[3].ver = 0
    /\ panes[1].id > panes[2].id

\* C7: with maxPaneWidth > tabWidth > 0, in every reachable state
\* leftTabs.length + (pinnedPane ? 1 : 0) + trackPanes.length + rightTabs.length
\* equals the number of panes.
C7_PartitionCount ==
    (maxPaneWidth > tabWidth) =>
        Len(leftTabs) + Len(pinnedPane) + Len(trackPanes) + Len(rightTabs)
            = Len(panes)

\* C8: in every reachable state leftTabs ++ [pinnedPane] ++ trackPanes ++ rightTabs
\* equals the pane list exactly.
C8_PartitionConcat ==
    leftTabs \o pinnedPane \o trackPanes \o rightTabs = panes

\* C9: for n >= 1 and maxPaneWidth > tabWidth > 0 the tab count k satisfies
\* k <= n - 1, so a pinned pane is always present.
C9_TabCountLeavesPinned ==
    (Len(panes) >= 1 /\ maxPaneWidth > tabWidth) =>
        initialTabCount <= Len(panes) - 1

\* (n - k) panes at maxPaneWidth plus k tabs at tabWidth fit the viewport
Fits(k) ==
    (Len(panes) - k) * maxPaneWidth + k * tabWidth <= viewportWidth
\* the panes after the pinned one, the k tabs and a tab-wide strip of the
\* pinned pane fit the viewport
SlideFits(k) ==
    (Len(panes) - 1 - k) * maxPaneWidth + (k + 1) * tabWidth <= viewportWidth

\* C10 (as stated): k is the smallest non-negative integer such that
\* (n - k) panes plus k tabs do not exceed the viewport width.
C10_SmallestFitting ==
    (maxPaneWidth > tabWidth) =>
        /\ Fits(initialTabCount)
        /\ initialTabCount > 0 => ~Fits(initialTabCount - 1)

\* C10 (amended): with maxPaneWidth > tabWidth, k is the smallest
\* non-negative integer such that (n - 1 - k) panes at maxPaneWidth plus
\* (k + 1) tab widths do not exceed the viewport width.
C10_SmallestSliding ==
    (maxPaneWidth > tabWidth) =>
        /\ initialTabCount >= 0
        /\ SlideFits(initialTabCount)
        /\ initialTabCount > 0 => ~SlideFits(initialTabCount - 1)

C10_Witness ==
    /\ maxPaneWidth > tabWidth
    /\ Len(panes) = 3
    /\ initialTabCount = 2
    /\ ~Fits(initialTabCount)

\* the last operation was mount or a pane-list change: the effect on
\* [panes, api] has just handed overlap to the spring
AfterPaneChange == lastOp # "other"
\* viewport width left once every tab has taken tabWidth
availableWidth ==
    viewportWidth - (Len(leftTabs) + Len(rightTabs)) * tabWidth
\* the tab counts are those of the slices
CountsWithinList ==
    /\ leftTabCount >= 0
    /\ leftTabCount + rightTabCount <= Len(panes)

\* C11 (as stated): the resting track offset handed to the offset controller
\* (the magnitude of overlap) equals
\* max(0, maxPaneWidth * len(trackPanes) - availableWidth).
C11_OffsetOfTrackPanes ==
    AfterPaneChange =>
        /\ springX = overlap
        /\ -springX = Max(0, maxPaneWidth * Len(trackPanes) - availableWidth)

\* C11 (amended): the offset handed to the spring after a pane-list change is
\* overlap, whose magnitude is max(0, maxPaneWidth * f - a) with
\* f = n - leftTabCount - rightTabCount panes not counted as tabs (the pinned
\* pane included) and a = viewportWidth - (leftTabCount + rightTabCount) *
\* tabWidth; whenever the tab counts lie within the list, f is the pinned
\* pane plus the trackPanes and a is availableWidth.
C11_OffsetOfFullPanes ==
    AfterPaneChange =>
        /\ springX = overlap
        /\ -springX =
               Max(0, maxPaneWidth * (Len(panes) - leftTabCount - rightTabCount)
                          - (viewportWidth
                                 - (leftTabCount + rightTabCount) * tabWidth))
        /\ CountsWithinList =>
               -springX = Max(0, maxPaneWidth
                                     * (Len(pinnedPane) + Len(trackPanes))
                                 - availableWidth)

C11_Witness ==
    /\ lastOp = "openFresh"
    /\ tabOffset = 1
    /\ CountsWithinList
    /\ Len(rightTabs) = 1
    /\ Len(trackPanes) = 1
    /\ springX < 0
    /\ -springX # Max(0, maxPaneWidth * Len(trackPanes) - availableWidth)

\* C12: after any openPane(next), from any reachable state (right tabs or an
\* active refuge included), the pane next.id, which is the last of the list,
\* is rendered as a full pane (pinned or track), never as a tab.
C12_OpenedPaneIsFull ==
    (lastOp \in {"openFresh", "openExisting"}) =>
        Len(panes) \in FullPanePositions

\* the last operation changed the pane list
StructuralChange ==
    lastOp \in {"openFresh", "openExisting", "closePresent", "setPaneData"}

\* C13: after any structural change (openPane, closePane of a present pane,
\* replacement of paneData) the controller is Resting: tabRefuge is false and
\* tabOffset is 0.
C13_StructuralChangeResets ==
    StructuralChange => (~tabRefuge /\ tabOffset = 0)

\* the layout of the current state: the index ranges of the partition
\* (leftTabs is [0, leftTabs), rightTabs is [paneCount - rightTabs,
\* paneCount), the full panes lie between), the offset and the bounds
Layout ==
    [paneCount |-> Len(panes),
     leftTabs  |-> Len(leftTabs),
     rightTabs |-> Len(rightTabs),
     overlap   |-> overlap,
     minBound  |-> minBound,
     maxBound  |-> maxBound]

\* the same layout computed from a pane list, a paneWidth prop, a viewport
\* width, the refuge flag and the tab-offset counter
LayoutOf(ps, pw, vw, refuge, toff) ==
    LET o == overlapOf(ps, pw, vw, refuge, toff)
        m == maxPaneWidthOf(pw, vw)
    IN [paneCount |-> Len(ps),
        leftTabs  |-> Len(slice(ps, 0, leftTabCountOf(ps, pw, vw, refuge, toff))),
        rightTabs |-> Len(sliceFrom(ps, Len(ps) - toff)),
        overlap   |-> o,
        minBound  |-> IF refuge THEN -(m - tabWidth) ELSE o,
        maxBound  |-> IF refuge THEN o ELSE 0]

\* C14 (as stated): the layout is a function of paneCount, maxPaneWidth,
\* viewportWidth, tabWidth and the tab-offset counter only: a step that
\* leaves these five values unchanged leaves the partition index ranges,
\* the offset and the bounds unchanged.
C14_LayoutOfFiveValues ==
    [][(/\ Len(panes') = Len(panes)
        /\ maxPaneWidth' = maxPaneWidth
        /\ viewportWidth' = viewportWidth
        /\ tabOffset' = tabOffset) => Layout' = Layout]_vars

\* C14 (amended): the layout is a function of paneCount, maxPaneWidth,
\* viewportWidth, tabWidth, the tab-offset counter and the refuge flag: any
\* pane list and paneWidth prop that agree with the current state on these
\* values give the layout of the current state.
C14_LayoutOfSixValues ==
    /\ LayoutOf(panes, paneWidth, viewportWidth, tabRefuge, tabOffset) = Layout
    /\ \A pw2 \in PaneWidths : \A ps2 \in InitialLists :
          (/\ Len(ps2) = Len(panes)
           /\ maxPaneWidthOf(pw2, viewportWidth) = maxPaneWidth) =>
              LayoutOf(ps2, pw2, viewportWidth, tabRefuge, tabOffset) = Layout

C14_Witness ==
    /\ tabRefuge
    /\ tabOffset >= 1
    /\ paneWidth = 300
    /\ viewportWidth = 100
    /\ Len(panes) = 3
    /\ panes[1].id # 1

\* C15: when maxPaneWidth <= tabWidth the tab count of a non-empty list is
\* 0 and every pane stays a full pane: no left tab, no right tab, offset 0.
C15_NarrowPanesStayFull ==
    (maxPaneWidth <= tabWidth /\ Len(panes) >= 1) =>
        /\ initialTabCount = 0
        /\ leftTabs = <<>>
        /\ rightTabs = <<>>
        /\ Len(visiblePanes) = Len(panes)
        /\ overlap = 0

\* C16: while the viewport width is 0 (not yet measured), for every pane
\* count the allocator yields k = 0, leftTabs and rightTabs are empty and the
\* track offset is 0; when a non-zero width arrives the layout is the one
\* computed from that width alone.
C16_UnmeasuredThenMeasured ==
    [][(viewportWidth = 0) =>
          /\ initialTabCount = 0
          /\ leftTabs = <<>>
          /\ rightTabs = <<>>
          /\ Len(visiblePanes) = Len(panes)
          /\ overlap = 0
          /\ springX = 0
          /\ (viewportWidth' # 0) =>
                 Layout' = LayoutOf(panes, paneWidth, viewportWidth', FALSE, 0)]_vars

C16_Witness ==
    /\ viewportWidth = 0
    /\ Len(panes) = 3
    /\ panes[1].id # 1
    /\ wheelActive

\* C17: with no wheel interaction since mount, after any sequence of
\* openPane calls with fresh ids rightTabs is empty and leftTabs is exactly
\* the first k panes, k = max(0, ceil(((n - 1) * maxPaneWidth - viewportWidth
\* + tabWidth) / (maxPaneWidth - tabWidth))); 3 panes of 300 in 800 give 3
\* full panes and no tab, 4 such panes give 3 full panes and 1 tab.
C17_FreshOpensLeftTabs ==
    LET n == Len(panes)
        k == Max(0, CeilDiv(((n - 1) * maxPaneWidth) - viewportWidth + tabWidth,
                            maxPaneWidth - tabWidth))
    IN /\ rightTabs = <<>>
       /\ Len(leftTabs) = k
       /\ leftTabs = SubSeq(panes, 1, Len(leftTabs))
       /\ (paneWidth = 300 /\ viewportWidth = 800 /\ n = 3) =>
              (Len(leftTabs) = 0 /\ Len(visiblePanes) = 3)
       /\ (paneWidth = 300 /\ viewportWidth = 800 /\ n = 4) =>
              (Len(leftTabs) = 1 /\ Len(visiblePanes) = 3)

\* C18: in the ScrollableTiledContainer, whenever the n panes fit at the
\* configured width (n * width <= bounds.width) every pane is rendered with
\* width bounds.width / n; otherwise the panes keep the configured width.
C18_EqualShare ==
    (RenderCompletes /\ Len(tiledPanes) >= 1) =>
        IF Len(tiledPanes) * width <= boundsWidth
        THEN Len(tiledPanes) * tiledPaneWidth = boundsWidth
        ELSE tiledPaneWidth = width

\* C19: in the ScrollableTiledContainer, when no pane is collapsed to a tab
\* and the panes overflow the viewport, the first pane is pinned (position
\* absolute) and the track is translated left by exactly
\* n * paneWidth - bounds.width (3 panes of 300 in 800: 100); when they do not
\* overflow the translation is 0.
C19_PinnedTrackOffset ==
    (/\ RenderCompletes
     /\ Len(tiledPanes) >= 1
     /\ Len(tabs) = 0
     /\ Len(rightTabsElements) = 0) =>
        /\ IF Len(tiledPanes) * tiledPaneWidth > boundsWidth
           THEN /\ firstIsAbsolute
                /\ offset = Len(tiledPanes) * tiledPaneWidth - boundsWidth
           ELSE offset = 0
        /\ (Len(tiledPanes) = 3 /\ width = 300 /\ boundsWidth = 800) =>
               offset = 100

WheelSample == wheelX' # wheelX \/ wheelActive' # wheelActive

\* C21: every wheel sample either commits a change of the tab counts
\* (tabRefuge or tabOffset changes) or hands the spring a track position
\* within [minBound, maxBound] of the current state, so the position is
\* never left outside the bounds by a sample that commits nothing.
C21_SampleWithinBounds ==
    [][(lastOp' = "other" /\ WheelSample) =>
          \/ tabRefuge' # tabRefuge
          \/ tabOffset' # tabOffset
          \/ /\ minBound <= springX'
             /\ springX' <= maxBound
             /\ minBound' = minBound
             /\ maxBound' = maxBound]_vars

C21_Witness ==
    /\ lastOp = "other"
    /\ wheelActive
    /\ wheelDir = -1
    /\ ~tabRefuge
    /\ overlap < 0
    /\ springX = 0

\* C22: the tab-offset counter changes only when a Refuge transition is
\* committed, that is on leaving Refuge, never on entering it; each change is
\* by exactly +1 or -1.
C22_OffsetChangesOnLeavingRefuge ==
    [][(tabOffset' # tabOffset) =>
          /\ tabRefuge
          /\ ~tabRefuge'
          /\ (tabOffset' = tabOffset + 1 \/ tabOffset' = tabOffset - 1)]_vars

\* C23: when a wheel gesture ends (the sample with active = false) the
\* controller is Resting: tabRefuge is false and the track position handed
\* to the spring is the resting offset (overlap) of the current partition.
C23_GestureEndRests ==
    [][(wheelActive /\ ~wheelActive') =>
          /\ ~tabRefuge'
          /\ springX' = overlap']_vars

\* the partition of the pane list
Partition ==
    [leftTabs   |-> leftTabs,
     pinnedPane |-> pinnedPane,
     trackPanes |-> trackPanes,
     rightTabs  |-> rightTabs]

\* the partition the current pane list has outside refuge with toff right tabs
PartitionAt(toff) ==
    LET l == leftTabCountOf(panes, paneWidth, viewportWidth, FALSE, toff)
        v == slice(panes, l, Len(panes) - toff)
    IN [leftTabs   |-> slice(panes, 0, l),
        pinnedPane |-> IF Len(v) > 0 THEN <<Head(v)>> ELSE <<>>,
        trackPanes |-> IF Len(v) > 0 THEN Tail(v) ELSE <<>>,
        rightTabs  |-> sliceFrom(panes, Len(panes) - toff)]

\* in refuge, right after the sample that entered it: the tab-offset counter
\* as it was before that sample (wheelDir is the direction of that sample)
OffsetBeforeRefuge == IF wheelDir > 0 THEN tabOffset + 1 ELSE tabOffset

\* C24: a wheel sample that enters refuge, followed by a sample of the
\* opposite direction, leaves refuge without committing: the tab-offset
\* counter and the partition (leftTabs, pinnedPane, trackPanes, rightTabs)
\* are what they were before refuge was entered, for entry from the left
\* side (direction < 0) and from the right side (direction > 0).  First
\* conjunct: OffsetBeforeRefuge is the counter of the state refuge was
\* entered from; second conjunct: the reversing sample restores it.
C24_ReverseLeavesRefuge ==
    [][/\ (~tabRefuge /\ tabRefuge') =>
             /\ OffsetBeforeRefuge' = tabOffset
             /\ PartitionAt(OffsetBeforeRefuge)' = Partition
       /\ (tabRefuge /\ WheelSample /\ wheelDir' = -wheelDir) =>
             /\ ~tabRefuge'
             /\ tabOffset' = OffsetBeforeRefuge
             /\ Partition' = PartitionAt(OffsetBeforeRefuge)]_vars

\* the pane with identifier i is rendered as a full pane (pinned or on the track)
IsFull(i) == \E j \in 1..Len(visiblePanes) : visiblePanes[j].id = i

C26_LayoutLoopTerminates == RenderCompletes

\* C27: in ScrollableTiledContainer, once the effects have run,
\* 0 <= viewIndex <= max(0, panes.length - 1): the number of left tabs is
\* never negative and at least one pane of a non-empty list is a full pane.
C27_ViewIndexInRange ==
    /\ 0 <= viewIndex
    /\ viewIndex <= Max(0, Len(tiledPanes) - 1)

\* C28: in every reachable state of SlipStackContainer the tab counts are
\* well-formed: rightTabCount = tabOffset >= 0,
\* leftTabCount = initialTabCount - tabOffset - (1 if tabRefuge) >= 0, and
\* leftTabCount + rightTabCount <= panes.length - 1 for a non-empty list.
C28_TabCountsWellFormed ==
    /\ rightTabCount = tabOffset
    /\ tabOffset >= 0
    /\ leftTabCount = initialTabCount - tabOffset - (IF tabRefuge THEN 1 ELSE 0)
    /\ leftTabCount >= 0
    /\ Len(panes) >= 1 => leftTabCount + rightTabCount <= Len(panes) - 1

\* C29: the drag bounds are well-formed, minBound <= maxBound, outside
\* refuge ([overlap, 0]) and in refuge ([-(maxPaneWidth - tabWidth), overlap]).
C29_BoundsWellFormed == minBound <= maxBound

\* C30: when wheel samples are handled against the same render the outcome
\* is that of handling them in order: a step moves the tab-offset counter
\* by at most 1, and the counter never becomes negative or exceeds
\* initialTabCount.
C30_BurstAsInOrder ==
    [][/\ tabOffset' - tabOffset <= 1
       /\ tabOffset - tabOffset' <= 1
       /\ tabOffset' >= 0
       /\ tabOffset' <= initialTabCount']_vars

====
